---- MODULE Spec2Model ----
(***************************************************************************)
(* Request / pagination / error-mapping engine of the ConnectWise client   *)
(* (src/src/connectwise/client.py).                                        *)
(*                                                                         *)
(* Python values are tagged records so that values of different Python     *)
(* types can sit in one variable: None, int, str, float, list and dict.    *)
(* The HTTP transport (the requests library and the upstream server) is    *)
(* the environment: every call draws its response from the set Responses.  *)
(***************************************************************************)
EXTENDS Integers, Sequences, FiniteSets, TLC

----------------------------------------------------------------------------
(* Bounds of the model *)

\* largest small count the count endpoint reports (besides the counts around
\* the default page size)
MaxCount == 2
\* largest page size a caller supplies
MaxPageSize == 2
\* longest list the server puts in one page
MaxPageLen == 2
\* number of distinct records the server can return
NumRecords == 2
\* most pages one get_all invocation is followed through
MaxPages == 3

\* client.py:259, the page size used when the caller supplies none
DefaultPageSize == 1000

----------------------------------------------------------------------------
(* Python values *)

PyNone == [t |-> "null"]
PyInt(i) == [t |-> "int", i |-> i]
PyStr(s) == [t |-> "str", s |-> s]
PyBool(b) == [t |-> "bool", b |-> b]
\* a float: its integral part and whether it is inf / nan
PyFloat(whole, special) == [t |-> "float", whole |-> whole, special |-> special]
PyList(items) == [t |-> "list", items |-> items]
\* a dict: f is a function from its keys to Python values
PyDict(f) == [t |-> "dict", f |-> f]
\* the body did not parse as JSON
NotJson == [t |-> "invalid"]

\* Python truthiness, as used by "if conditions:", "if pagesize:", ...
Truthy(v) ==
    CASE v.t = "null" -> FALSE
      [] v.t = "int" -> v.i # 0
      [] v.t = "str" -> v.s # ""
      [] v.t = "bool" -> v.b
      [] v.t = "float" -> ~(v.special = "none" /\ v.whole = 0)
      [] v.t = "list" -> v.items # <<>>
      [] v.t = "dict" -> DOMAIN v.f # {}

\* dict.get(key, default)
DictGet(d, key, default) == IF key \in DOMAIN d.f THEN d.f[key] ELSE default

----------------------------------------------------------------------------
(* Conversions of the Python runtime used by the client *)

\* the decimal numerals the model's strings can spell
Numerals == 0..(MaxCount + 30)

\* int(s) for a str: the integer whose decimal numeral s is; ValueError
\* otherwise
ParseInt(s) ==
    IF \E i \in Numerals : ToString(i) = s
    THEN [ok |-> TRUE, i |-> CHOOSE i \in Numerals : ToString(i) = s]
    ELSE [ok |-> FALSE, exc |-> "ValueError"]

\* int(v): ints are kept, bools become 0/1, finite floats are truncated,
\* numeric strings are parsed; inf raises OverflowError, nan and non-numeric
\* strings ValueError, None / list / dict TypeError
int(v) ==
    CASE v.t = "int" -> [ok |-> TRUE, i |-> v.i]
      [] v.t = "bool" -> [ok |-> TRUE, i |-> IF v.b THEN 1 ELSE 0]
      [] v.t = "str" -> ParseInt(v.s)
      [] v.t = "float" ->
            (CASE v.special = "none" -> [ok |-> TRUE, i |-> v.whole]
               [] v.special = "inf" -> [ok |-> FALSE, exc |-> "OverflowError"]
               [] v.special = "nan" -> [ok |-> FALSE, exc |-> "ValueError"])
      [] OTHER -> [ok |-> FALSE, exc |-> "TypeError"]

RECURSIVE Render(_, _)
RECURSIVE RenderItems(_, _)
RECURSIVE RenderKeys(_, _, _)
\* the text of a value: json.dumps style when q is the double quote (the raw
\* text the server sent), Python str()/repr style when q is the single quote
Render(v, q) ==
    CASE v.t = "null" -> IF q = "\"" THEN "null" ELSE "None"
      [] v.t = "int" -> ToString(v.i)
      [] v.t = "bool" -> IF q = "\""
                         THEN (IF v.b THEN "true" ELSE "false")
                         ELSE (IF v.b THEN "True" ELSE "False")
      [] v.t = "str" -> q \o v.s \o q
      [] v.t = "float" ->
            (CASE v.special = "none" -> ToString(v.whole) \o ".7"
               [] v.special = "inf" -> IF q = "\"" THEN "1e400" ELSE "inf"
               [] v.special = "nan" -> IF q = "\"" THEN "NaN" ELSE "nan")
      [] v.t = "list" -> "[" \o RenderItems(v.items, q) \o "]"
      [] v.t = "dict" -> "{" \o RenderKeys(v.f, DOMAIN v.f, q) \o "}"

RenderItems(items, q) ==
    IF items = <<>> THEN ""
    ELSE IF Len(items) = 1 THEN Render(Head(items), q)
    ELSE Render(Head(items), q) \o ", " \o RenderItems(Tail(items), q)

RenderKeys(f, keys, q) ==
    IF keys = {} THEN ""
    ELSE LET k == CHOOSE x \in keys : TRUE
             rest == keys \ {k}
         IN q \o k \o q \o ": " \o Render(f[k], q)
            \o (IF rest = {} THEN "" ELSE ", " \o RenderKeys(f, rest, q))

\* str(value), as in str(error_data)
str(v) == Render(v, "'")

----------------------------------------------------------------------------
(* The transport: responses of requests.get / post / put / patch / delete *)

\* a record (ticket, configuration, ...) as the server serialises it
Rec(i) == PyDict([id |-> PyInt(i)])
Records == {Rec(i) : i \in 1..NumRecords}

\* n records in a row starting at record r (wrapping around), and n times
\* the record r
Run(r, n) == [i \in 1..n |-> Rec(((r + i - 2) % NumRecords) + 1)]
Repeat(r, n) == [i \in 1..n |-> Rec(r)]

\* the lists of records a page holds: empty, a run or a repetition, of any
\* length up to MaxPageLen
PageLists ==
    {<<>>}
    \cup {Run(r, n) : r \in 1..NumRecords, n \in 1..MaxPageLen}
    \cup {Repeat(r, n) : r \in 1..NumRecords, n \in 1..MaxPageLen}

\* the totals a count endpoint reports: the small ones, one that leaves a
\* partial last page for the largest page size, and some around the default
\* page size
Counts ==
    (-1..MaxCount) \cup {2 * MaxPageSize - 1}
    \cup {DefaultPageSize, DefaultPageSize + 1, 2500}

\* values found under the "count" key of a count response
CountValues ==
    {PyInt(c) : c \in Counts}
    \cup {PyStr("2"), PyStr("abc"), PyNone, PyFloat(2, "none"),
          PyFloat(0, "inf"), PyFloat(0, "nan"), PyList(<<>>)}

CountPayloads == {PyDict([count |-> v]) : v \in CountValues}
PagePayloads == {PyList(items) : items \in PageLists}
ErrorPayloads == {PyDict([message |-> PyStr("boom")]), PyDict([code |-> PyStr("x")])}
ScalarPayloads == {PyNone, PyInt(5)}

\* a body that parses as JSON: its raw text and its parsed value
JsonBody(v) == [text |-> Render(v, "\""), json |-> v]
\* bodies that do not parse as JSON
NonJsonBodies == {[text |-> "", json |-> NotJson],
                  [text |-> "Server Error", json |-> NotJson]}

ErrorBodies ==
    NonJsonBodies
    \cup {JsonBody(v) : v \in ErrorPayloads \cup ScalarPayloads
                              \cup {PyList(<<Rec(1)>>), Rec(1)}}
Bodies ==
    ErrorBodies
    \cup {JsonBody(v) : v \in CountPayloads \cup PagePayloads \cup Records}

\* statuses for which requests' Response.ok is true (no 4xx, no 5xx)
OkStatuses == {200, 204, 302}
\* statuses for which Response.ok is false
ErrorStatuses == {400, 401, 403, 404, 429, 500, 503}
Statuses == OkStatuses \cup ErrorStatuses

\* values of the Retry-After header (None: header missing)
RetryAfterHeaders == {PyNone, PyStr("30"), PyStr("abc"), PyStr("")}

Responses ==
    {[status_code |-> s, body |-> b, retry_after |-> PyNone] :
        s \in OkStatuses, b \in Bodies}
    \cup {[status_code |-> s, body |-> b, retry_after |-> PyNone] :
        s \in ErrorStatuses, b \in ErrorBodies}
    \cup {[status_code |-> 429, body |-> b, retry_after |-> h] :
        b \in ErrorBodies, h \in RetryAfterHeaders}

\* what the server answers to a page query of get_all: an error response
\* (with a JSON or a non-JSON body), or a 200 whose body is a list of
\* records, one record, a scalar, null or not JSON
PageBodies ==
    NonJsonBodies
    \cup {JsonBody(v) : v \in PagePayloads \cup ScalarPayloads \cup {Rec(1)}}
PageErrorBodies ==
    {[text |-> "Server Error", json |-> NotJson],
     JsonBody(PyDict([message |-> PyStr("boom")]))}
PageResponses ==
    {r \in Responses :
        \/ r.status_code \in ErrorStatuses /\ r.body \in PageErrorBodies
        \/ r.status_code = 200 /\ r.body \in PageBodies}

\* requests.Response.ok: raise_for_status() raises only for 400..599
ok(response) == ~(response.status_code >= 400 /\ response.status_code < 600)

----------------------------------------------------------------------------
(* Outcomes of a call and exceptions *)

Return(v) == [kind |-> "return", value |-> v]
Raise(e) == [kind |-> "raise", err |-> e]
Pending == [kind |-> "pending"]

\* an exception raised by the library's own classifier
ApiError(cls, message, status_code, response_data, retry_after) ==
    [cls |-> cls, message |-> message, status_code |-> PyInt(status_code),
     response_data |-> response_data, retry_after |-> retry_after]
\* an exception of the Python runtime or of the transport
Untyped(cls) ==
    [cls |-> cls, message |-> PyNone, status_code |-> PyNone,
     response_data |-> PyNone, retry_after |-> PyNone]

\* exceptions.py: the subclasses of ConnectWiseAPIError and the class itself
TypedClasses ==
    {"ConnectWiseAPIError", "ConnectWiseAuthenticationError",
     "ConnectWiseNotFoundError", "ConnectWiseBadRequestError",
     "ConnectWiseRateLimitError", "ConnectWiseServerError"}
IsTyped(e) == e.cls \in TypedClasses

\* response.json()
json(response) ==
    IF response.body.json = NotJson
    THEN Raise(Untyped("JSONDecodeError"))
    ELSE Return(response.body.json)

\* client.py _handle_response_error: the exception it raises
handle_response_error(response) ==
    LET parsed == response.body.json
        parsed_ok == parsed # NotJson
        \* lines 132-136: error_data.get exists only on a dict; any exception
        \* in the try block falls back to the raw text
        error_message ==
            IF parsed_ok /\ parsed.t = "dict"
            THEN DictGet(parsed, "message", PyStr(str(parsed)))
            ELSE IF response.body.text # ""
                 THEN PyStr(response.body.text)
                 ELSE PyStr("HTTP " \o ToString(response.status_code) \o " error")
        \* error_data if 'error_data' in locals() else None
        response_data == IF parsed_ok THEN parsed ELSE PyNone
        status_code == response.status_code
        header == response.retry_after
    IN  CASE status_code = 404 ->
               ApiError("ConnectWiseNotFoundError", error_message, status_code,
                        response_data, PyNone)
          [] status_code = 401 ->
               ApiError("ConnectWiseAuthenticationError", error_message,
                        status_code, response_data, PyNone)
          [] status_code = 400 ->
               ApiError("ConnectWiseBadRequestError", error_message,
                        status_code, response_data, PyNone)
          [] status_code = 429 ->
               \* int(retry_after) if retry_after else None
               IF ~Truthy(header)
               THEN ApiError("ConnectWiseRateLimitError", error_message,
                             status_code, response_data, PyNone)
               ELSE IF int(header).ok
                    THEN ApiError("ConnectWiseRateLimitError", error_message,
                                  status_code, response_data,
                                  PyInt(int(header).i))
                    ELSE Untyped(int(header).exc)
          [] status_code >= 500 ->
               ApiError("ConnectWiseServerError", error_message, status_code,
                        response_data, PyNone)
          [] OTHER ->
               ApiError("ConnectWiseAPIError", error_message, status_code,
                        response_data, PyNone)

----------------------------------------------------------------------------
(* Arguments the callers of the model supply *)

Endpoints == {"service/tickets"}

\* the filter arguments of get / get_all: none supplied, only conditions,
\* only the two that get_all does not forward to the count query, or all
Filters ==
    {[conditions |-> PyStr(c), childconditions |-> PyStr(cc),
      fields |-> PyStr(f), orderby |-> PyStr(o)] :
        <<c, cc, f, o>> \in {<<"", "", "", "">>, <<"id>0", "", "", "">>,
                             <<"", "", "id", "id desc">>,
                             <<"id>0", "x=1", "id", "id desc">>}}

\* page sizes of the documented domain: unspecified, zero, positive
PageSizes == {PyNone} \cup {PyInt(p) : p \in 0..MaxPageSize}
PageNumbers == {PyNone} \cup {PyInt(p) : p \in 0..MaxPages}

GetAllArgs ==
    {[endpoint |-> e, conditions |-> f.conditions,
      childconditions |-> f.childconditions, fields |-> f.fields,
      pagesize |-> ps, orderby |-> f.orderby] :
        e \in Endpoints, f \in Filters, ps \in PageSizes}

GetArgs ==
    {[endpoint |-> e, conditions |-> f.conditions,
      childconditions |-> f.childconditions, fields |-> f.fields,
      pagesize |-> ps, page |-> pg, orderby |-> f.orderby] :
        e \in Endpoints, f \in Filters, ps \in PageSizes, pg \in PageNumbers}

RecordIds == 1..NumRecords
\* bodies of post / put and operation lists of patch
Payloads == {PyDict([summary |-> PyStr("s")])}
Operations ==
    {PyList(<<PyDict([op |-> PyStr("replace"), path |-> PyStr("/status"),
                      value |-> PyDict([id |-> PyInt(1)])])>>)}

----------------------------------------------------------------------------
(* client.py: the base HTTP methods *)

NoParams == [k \in {} |-> PyNone]

\* every optional parameter put in the query, supplied or not
get_params_all(a) ==
    [k \in {"conditions", "childconditions", "fields", "pagesize", "orderby",
            "page"} |-> a[k]]

\* get, lines 202-215: the query holds a key only for a truthy argument
get_params(a) ==
    [k \in {key \in {"conditions", "childconditions", "fields", "pagesize",
                     "orderby", "page"} : Truthy(a[key])} |-> a[k]]

\* get, line 218: the request handed to requests.get
get_request(a) ==
    [method |-> "GET", endpoint |-> a.endpoint, params |-> get_params(a),
     json |-> PyNone]

\* get with the 404 branch left out: a 404 reaches the error classifier
get_outcome_404_raises(response) ==
    IF ~ok(response) THEN Raise(handle_response_error(response))
    ELSE json(response)

\* get, lines 220-228: 404 is absence, any
\* other not-ok response raises, anything else is response.json()
get_outcome(response) ==
    IF response.status_code = 404 THEN Return(PyNone)
    ELSE IF ~ok(response) THEN Raise(handle_response_error(response))
    ELSE json(response)

put_request(endpoint, record_id, data) ==
    [method |-> "PUT", endpoint |-> endpoint \o "/" \o ToString(record_id),
     params |-> NoParams, json |-> data]

\* put, lines 378-386
put_outcome(response) ==
    IF response.status_code = 404 THEN Return(PyNone)
    ELSE IF ~ok(response) THEN Raise(handle_response_error(response))
    ELSE json(response)

patch_request(endpoint, record_id, operations) ==
    [method |-> "PATCH", endpoint |-> endpoint \o "/" \o ToString(record_id),
     params |-> NoParams, json |-> operations]

\* patch with the 404 branch left out
patch_outcome_404_raises(response) ==
    IF ~ok(response) THEN Raise(handle_response_error(response))
    ELSE json(response)

\* patch, lines 315-323
patch_outcome(response) ==
    IF response.status_code = 404 THEN Return(PyNone)
    ELSE IF ~ok(response) THEN Raise(handle_response_error(response))
    ELSE json(response)

post_request(endpoint, data) ==
    [method |-> "POST", endpoint |-> endpoint, params |-> NoParams,
     json |-> data]

\* post, lines 346-352: no 404 branch
post_outcome(response) ==
    IF ~ok(response) THEN Raise(handle_response_error(response))
    ELSE json(response)

delete_request(endpoint, record_id) ==
    [method |-> "DELETE", endpoint |-> endpoint \o "/" \o ToString(record_id),
     params |-> NoParams, json |-> PyNone]

\* delete, lines 408-419
delete_outcome(response) ==
    IF response.status_code = 404 THEN Return(PyBool(FALSE))
    ELSE IF ~ok(response) THEN Raise(handle_response_error(response))
    ELSE Return(PyBool(response.status_code = 204 \/ ok(response)))

----------------------------------------------------------------------------
(* client.py: get_all *)

\* the count query with every filter of get_all forwarded
count_args_all(a) ==
    [endpoint |-> a.endpoint \o "/count", conditions |-> a.conditions,
     childconditions |-> a.childconditions, fields |-> a.fields,
     pagesize |-> a.pagesize, page |-> PyNone, orderby |-> a.orderby]

\* lines 243-247: the arguments of the count query; the other parameters of
\* get keep their defaults
count_args(a) ==
    [endpoint |-> a.endpoint \o "/count",
     conditions |-> IF Truthy(a.conditions) THEN a.conditions ELSE PyNone,
     childconditions |-> IF Truthy(a.childconditions) THEN a.childconditions
                         ELSE PyNone,
     fields |-> PyStr(""), pagesize |-> PyNone, page |-> PyNone,
     orderby |-> PyStr("")]

\* the page query sent with the caller's page size argument instead of the
\* resolved one
page_args_unresolved(a, ps, pg) ==
    [endpoint |-> a.endpoint, conditions |-> a.conditions,
     childconditions |-> a.childconditions, fields |-> a.fields,
     pagesize |-> a.pagesize, page |-> PyInt(pg), orderby |-> a.orderby]

\* lines 265-273: the arguments of the query for one page
page_args(a, ps, pg) ==
    [endpoint |-> a.endpoint, conditions |-> a.conditions,
     childconditions |-> a.childconditions, fields |-> a.fields,
     pagesize |-> ps, page |-> PyInt(pg), orderby |-> a.orderby]

\* lines 253-256: int(ct.get("count", 0)); ct.get raises AttributeError
\* unless ct is a dict
extract_count(ct) ==
    IF ct.t = "dict" THEN int(DictGet(ct, "count", PyInt(0)))
    ELSE [ok |-> FALSE, exc |-> "AttributeError"]

\* line 255: the exceptions the count extraction swallows
CaughtByCount == {"AttributeError", "ValueError", "TypeError"}

\* lines 258-259
resolve_pagesize(ps) == IF ps = PyNone THEN PyInt(DefaultPageSize) ELSE ps

\* floor instead of ceiling division
total_pages_floor(c, ps) == c \div ps

\* one page more than the floor: an extra page when ps divides c
total_pages_extra(c, ps) == (c \div ps) + 1

\* line 262
total_pages_of(c, ps) == (c + ps - 1) \div ps

\* the loop without its break
page_never_absent(result) == FALSE

\* line 276: a page that ends the pagination
page_is_absent(result) == result = PyNone

\* append where the code extends: a list page becomes one element
accumulate_append(acc, result) == Append(acc, result)

\* a list page extended without the records already accumulated
accumulate_dedup(acc, result) ==
    IF result.t = "list"
    THEN acc \o SelectSeq(result.items,
                          LAMBDA x : \A i \in 1..Len(acc) : acc[i] # x)
    ELSE Append(acc, result)

\* lines 279-283
accumulate(acc, result) ==
    IF result.t = "list" THEN acc \o result.items ELSE Append(acc, result)

\* the exception caught and the accumulated records returned
get_all_swallow(e, acc) == Return(PyList(acc))

\* an exception raised by self.get inside get_all: nothing catches it
get_all_raise(e, acc) == Raise(e)

----------------------------------------------------------------------------
(* models/ticket.py and models/configuration.py: the objects the resource *)
(* methods build from a payload                                            *)

\* ticket.py lines 10-38: the fields of the Ticket dataclass, and the ones
\* without a default
TicketFields ==
    {"id", "summary", "board", "company", "priority", "status",
      "recordType", "type", "source", "subType", "item", "team", "owner",
      "contact", "site", "initialDescription", "requiredDate",
      "closedDate", "closedBy", "closedFlag", "actualHours", "budgetHours",
      "customerUpdatedFlag", "automaticEmailContactFlag",
      "automaticEmailResourceFlag", "automaticEmailCcFlag", "lastUpdated",
      "updatedBy", "dateEntered"}
TicketRequired ==
    {"id", "summary", "board", "company", "priority", "status"}
\* ticket.py line 61: the fields taken from the _info object
InfoFields == {"lastUpdated", "updatedBy", "dateEntered"}

\* a Ticket object: the keyword arguments it was constructed with (a field
\* that is not among them has its default)
Ticket(f) == [t |-> "Ticket", f |-> f]

\* `field in info` of ticket.py line 62; TypeError for a value that is no
\* container (payloads of the model hold no string under _info)
InfoHolds(info, field) ==
    CASE info.t = "dict" -> field \in DOMAIN info.f
      [] info.t = "list" ->
            \E i \in 1..Len(info.items) : info.items[i] = PyStr(field)
      [] OTHER -> FALSE

\* Ticket.from_dict, ticket.py lines 41-64: data.items() and data.get need a
\* dict; the constructor raises TypeError when a field without default is
\* missing
Ticket_from_dict(data) ==
    IF data.t # "dict" THEN Raise(Untyped("AttributeError"))
    ELSE LET info == DictGet(data, "_info", PyDict(<<>>))
             found == {k \in InfoFields : InfoHolds(info, k)}
             keys == (DOMAIN data.f \cap TicketFields) \cup found
             filtered_data ==
                 [k \in keys |-> IF k \in found THEN info.f[k] ELSE data.f[k]]
         IN  IF info.t \notin {"dict", "list", "str"}
             THEN Raise(Untyped("TypeError"))
             ELSE IF found # {} /\ info.t # "dict"
             THEN Raise(Untyped("TypeError"))
             ELSE IF ~(TicketRequired \subseteq keys)
             THEN Raise(Untyped("TypeError"))
             ELSE Return(Ticket(filtered_data))

\* configuration.py lines 10-63: the fields of the Configuration dataclass,
\* in declaration order
ConfigurationFieldOrder ==
    <<"id", "name", "company", "type", "status", "location", "site",
       "contact", "department", "locationId", "businessUnitId",
       "companyLocationId", "serialNumber", "modelNumber", "tagNumber",
       "purchaseDate", "installationDate", "warrantyExpirationDate",
       "vendorNotes", "notes", "macAddress", "lastLoginName", "billFlag",
       "backupSuccesses", "backupIncomplete", "backupFailed",
       "backupRestores", "lastBackupDate", "backupServerName",
       "backupProtectedDeviceList", "backupYear", "backupMonth",
       "ipAddress", "defaultGateway", "osType", "osInfo", "cpuSpeed",
       "ram", "localHardDrives", "parentConfigurationId", "vendor",
       "manufacturer", "questions", "activeFlag", "managementLink",
       "remoteLink", "sla", "mobileGuid", "deviceIdentifier",
       "showRemoteFlag", "showAutomateFlag", "needsRenewalFlag">>
ConfigurationFields ==
    {ConfigurationFieldOrder[i] : i \in 1..Len(ConfigurationFieldOrder)}

\* a Configuration object: the keyword arguments it was constructed with
Configuration(f) == [t |-> "Configuration", f |-> f]

\* the value of a field of a Configuration: the constructor argument, or the
\* default of the dataclass (lines 17-63)
getattr(config, name) ==
    IF name \in DOMAIN config.f THEN config.f[name]
    ELSE IF name = "billFlag" THEN PyBool(FALSE)
    ELSE IF name = "activeFlag" THEN PyBool(TRUE)
    ELSE PyNone

\* configuration.py lines 84-94: the values given to the required fields
\* that the payload lacks
RequiredDefault(name) ==
    CASE name = "id" -> PyInt(0)
      [] name = "name" -> PyStr("")
      [] OTHER -> PyDict(<<>>)

\* Configuration.from_dict, configuration.py lines 66-96: data.items() needs
\* a dict; any dict gives a Configuration
Configuration_from_dict(data) ==
    IF data.t # "dict" THEN Raise(Untyped("AttributeError"))
    ELSE LET required == {"id", "name", "company", "type", "status"}
             keys == (DOMAIN data.f \cap ConfigurationFields) \cup required
         IN  Return(Configuration(
                 [k \in keys |-> IF k \in DOMAIN data.f THEN data.f[k]
                                 ELSE RequiredDefault(k)]))

\* Configuration.to_dict, lines 98-117, with exclude_none: the names of the
\* fields of the dict, in the order of its items
to_dict(config, exclude_id) ==
    SelectSeq(ConfigurationFieldOrder,
              LAMBDA name : /\ ~(exclude_id /\ name = "id")
                            /\ getattr(config, name) # PyNone)

----------------------------------------------------------------------------
(* mixins/ticket_mixin.py and mixins/configuration_mixin.py: the resource *)
(* methods, built on post and patch                                        *)

\* `a or b`
Or(a, b) == IF Truthy(a) THEN a ELSE b

\* a value inside an f-string
format(v) == IF v.t = "str" THEN v.s ELSE str(v)

\* the TicketDefaults the client of the model was constructed with
\* (client.py line 78): no default status and no default type
ticket_defaults ==
    [company_id |-> PyInt(7), board_id |-> PyInt(1), priority_id |-> PyInt(1),
     status_id |-> PyNone, type_id |-> PyNone, source_id |-> PyInt(1)]

\* {"id": x} if x else None
IdOrNone(x) == IF Truthy(x) THEN PyDict([id |-> x]) ELSE PyNone

\* create_ticket, ticket_mixin.py lines 42-58: the payload of the creation
\* request
create_ticket_payload(a) ==
    LET company_id == Or(a.company_id, ticket_defaults.company_id)
        board_id == Or(a.board_id, ticket_defaults.board_id)
        priority_id == Or(a.priority_id, ticket_defaults.priority_id)
        status_id == Or(a.status_id, ticket_defaults.status_id)
        type_id == Or(a.type_id, ticket_defaults.type_id)
        source_id == Or(a.source_id, ticket_defaults.source_id)
    IN  PyDict([summary |-> a.summary,
                board |-> PyDict([id |-> board_id]),
                company |-> PyDict([id |-> company_id]),
                priority |-> PyDict([id |-> priority_id]),
                type |-> IdOrNone(type_id),
                status |-> IdOrNone(status_id),
                source |-> IdOrNone(source_id),
                initialDescription |-> a.body])

\* create_ticket, lines 64-67: the first element of a list payload
\* (IndexError when it is empty), then ticket_data.get, which only a dict has
normalize_ticket_data(value) ==
    LET first == IF value.t = "list" THEN value.items[1] ELSE value
    IN  IF value.t = "list" /\ value.items = <<>>
        THEN Raise(Untyped("IndexError"))
        ELSE IF first.t # "dict" THEN Raise(Untyped("AttributeError"))
        ELSE Return(first)

\* attach_configuration, configuration_mixin.py lines 20-21
attach_configuration_request(ticket_id, config_id) ==
    post_request("service/tickets/" \o format(ticket_id) \o "/configurations",
                 PyDict([id |-> config_id]))

\* attach_configuration, lines 21-22: what it returns or raises, given the
\* outcome of its self.post
attach_configuration_outcome(result) ==
    IF result.kind = "raise" THEN result
    ELSE Configuration_from_dict(result.value)

\* update_ticket_status, ticket_mixin.py lines 120-126
status_operations(status_id) ==
    PyList(<<PyDict([op |-> PyStr("replace"), path |-> PyStr("/status"),
                     value |-> PyDict([id |-> PyInt(status_id)])])>>)

\* update_ticket_status with an error of its patch turned into None
update_ticket_status_swallow(result) ==
    IF result.kind = "raise" THEN Return(PyNone)
    ELSE IF Truthy(result.value) THEN Ticket_from_dict(result.value)
    ELSE Return(PyNone)

\* update_ticket_status, lines 128-129: what it returns or raises, given the
\* outcome of its self.patch
update_ticket_status_outcome(result) ==
    IF result.kind = "raise" THEN result
    ELSE IF Truthy(result.value) THEN Ticket_from_dict(result.value)
    ELSE Return(PyNone)

\* merge_ticket, lines 221-223
merge_request(child_ticket_id, parent_ticket_id) ==
    post_request("service/tickets/" \o format(PyInt(parent_ticket_id))
                     \o "/attachChildren",
                 PyDict([childTicketIds |->
                             PyList(<<PyInt(child_ticket_id)>>)]))

\* merge_ticket, lines 225-228
merge_result(child_ticket, merge_response) ==
    PyDict([child_ticket |-> child_ticket,
            merge_response |-> merge_response])

\* update_configuration, configuration_mixin.py lines 139-143: one replace
\* operation per item of config.to_dict(exclude_id=True)
configuration_operations(config) ==
    LET data == to_dict(config, TRUE)
    IN  PyList([i \in 1..Len(data) |->
                   PyDict([op |-> PyStr("replace"), path |-> PyStr(data[i]),
                           value |-> getattr(config, data[i])])])

\* update_configuration, lines 144-145
update_configuration_outcome(result) ==
    IF result.kind = "raise" THEN result
    ELSE Configuration_from_dict(result.value)

----------------------------------------------------------------------------
(* Arguments of the resource methods and the answers of the server to them *)

\* most configurations attached to a new ticket
MaxConfigIds == 2

\* lists of configuration ids: 1..n and n..1
ConfigIdLists ==
    {[i \in 1..n |-> PyInt(i)] : n \in 0..MaxConfigIds}
    \cup {[i \in 1..n |-> PyInt(n + 1 - i)] : n \in 2..MaxConfigIds}

\* create_ticket called with no ids (the defaults apply) or with ids, one of
\* them zero
CreateTicketArgs ==
    {[summary |-> PyStr("s"), body |-> PyStr("b"), company_id |-> ids[1],
      board_id |-> ids[2], priority_id |-> ids[2], status_id |-> ids[2],
      type_id |-> ids[3], source_id |-> ids[1], config_ids |-> cs] :
        ids \in {<<PyNone, PyNone, PyNone>>, <<PyNone, PyInt(2), PyInt(0)>>},
        cs \in ConfigIdLists}

\* Configuration objects a caller passes to update_configuration
Configurations ==
    {Configuration([id |-> PyInt(1), name |-> PyStr("pc"),
                    company |-> PyDict([id |-> PyInt(7)]),
                    type |-> PyDict([id |-> PyInt(1)]),
                    status |-> PyDict([id |-> PyInt(1)])]),
     Configuration([id |-> PyInt(1), name |-> PyStr("pc"),
                    company |-> PyDict([id |-> PyInt(7)]),
                    type |-> PyDict([id |-> PyInt(1)]),
                    status |-> PyDict([id |-> PyInt(1)]),
                    serialNumber |-> PyStr("x1"),
                    activeFlag |-> PyBool(FALSE)])}

\* a ticket as the server serialises it, with every field Ticket requires
FullTicket(i) ==
    PyDict([id |-> PyInt(i), summary |-> PyStr("s"),
            board |-> PyDict([id |-> PyInt(1)]),
            company |-> PyDict([id |-> PyInt(7)]),
            priority |-> PyDict([id |-> PyInt(1)]),
            status |-> PyDict([id |-> PyInt(1)]),
            _info |-> PyDict([lastUpdated |-> PyStr("2024-01-01")])])

\* what the server answers to the requests of the resource methods: a
\* success whose body is a ticket, a list holding one, a partial record, an
\* empty object, an empty list, null or not JSON, or an error
ResourceBodies ==
    {[text |-> "", json |-> NotJson]}
    \cup {JsonBody(v) : v \in {FullTicket(1), PyList(<<FullTicket(1)>>),
                               Rec(1), PyDict(<<>>), PyList(<<>>), PyNone}}
ResourceResponses ==
    {[status_code |-> 200, body |-> b, retry_after |-> PyNone] :
        b \in ResourceBodies}
    \cup {[status_code |-> s,
           body |-> JsonBody(PyDict([message |-> PyStr("boom")])),
           retry_after |-> PyNone] : s \in {400, 404, 500}}
    \cup {[status_code |-> 429,
           body |-> JsonBody(PyDict([message |-> PyStr("boom")])),
           retry_after |-> h] : h \in {PyStr("30"), PyStr("abc")}}

----------------------------------------------------------------------------
(* State *)

VARIABLES
    pc,           \* "idle", "done", or the method the invocation is inside
                  \* of: "get_all" (the page loop), "merge_ticket" (after
                  \* its patch), "create_ticket" (the attach loop)
    op,           \* the method of the current or last invocation
    args,         \* its arguments
    requests,     \* the requests it has handed to the transport, in order
    response,     \* the response to the last of them
    results,      \* what each self.get / self.patch / self.post call made
                  \* by get_all, merge_ticket or create_ticket returned or
                  \* raised
    count,        \* get_all local
    pagesize,     \* get_all local
    total_pages,  \* get_all local
    page,         \* get_all local: the loop variable
    responses,    \* get_all local: the accumulator
    locals,       \* the locals of merge_ticket / create_ticket
    outcome       \* what the invocation returned or raised

vars == <<pc, op, args, requests, response, results, count, pagesize,
          total_pages, page, responses, locals, outcome>>

NoResponse == [status_code |-> 0, body |-> [text |-> "", json |-> NotJson],
               retry_after |-> PyNone]
NoArgs == [endpoint |-> ""]
\* no local of a resource method is bound
NoMixinLocals == [k \in {} |-> PyNone]

Init ==
    /\ pc = "idle"
    /\ op = "none"
    /\ args = NoArgs
    /\ requests = <<>>
    /\ response = NoResponse
    /\ results = <<>>
    /\ count = 0
    /\ pagesize = PyNone
    /\ total_pages = 0
    /\ page = 0
    /\ responses = <<>>
    /\ locals = NoMixinLocals
    /\ outcome = Pending

\* The client keeps no state from one invocation to the next (the get_all
\* locals and the request are per call), so a behaviour follows one
\* invocation from the call to its outcome.
CanCall == pc = "idle"

\* the locals of get_all outside get_all
NoLocals ==
    /\ results' = <<>>
    /\ count' = 0
    /\ pagesize' = PyNone
    /\ total_pages' = 0
    /\ page' = 0
    /\ responses' = <<>>
    /\ locals' = NoMixinLocals

----------------------------------------------------------------------------
(* The base methods: one request, one response, one outcome *)

\* get re-issuing its request once after an error response
get_retrying(a, r) ==
    /\ CanCall
    /\ op' = "get" /\ args' = a
    /\ requests' = IF ok(r) THEN <<get_request(a)>>
                   ELSE <<get_request(a), get_request(a)>>
    /\ response' = r
    /\ outcome' = get_outcome(r)
    /\ pc' = "done"
    /\ NoLocals

\* get, lines 183-228
get(a, r) ==
    /\ CanCall
    /\ op' = "get" /\ args' = a
    /\ requests' = <<get_request(a)>>
    /\ response' = r
    /\ outcome' = get_outcome(r)
    /\ pc' = "done"
    /\ NoLocals

post(endpoint, data, r) ==
    /\ CanCall
    /\ op' = "post" /\ args' = [endpoint |-> endpoint, data |-> data]
    /\ requests' = <<post_request(endpoint, data)>>
    /\ response' = r
    /\ outcome' = post_outcome(r)
    /\ pc' = "done"
    /\ NoLocals

put(endpoint, record_id, data, r) ==
    /\ CanCall
    /\ op' = "put"
    /\ args' = [endpoint |-> endpoint, record_id |-> record_id, data |-> data]
    /\ requests' = <<put_request(endpoint, record_id, data)>>
    /\ response' = r
    /\ outcome' = put_outcome(r)
    /\ pc' = "done"
    /\ NoLocals

patch(endpoint, record_id, operations, r) ==
    /\ CanCall
    /\ op' = "patch"
    /\ args' = [endpoint |-> endpoint, record_id |-> record_id,
                operations |-> operations]
    /\ requests' = <<patch_request(endpoint, record_id, operations)>>
    /\ response' = r
    /\ outcome' = patch_outcome(r)
    /\ pc' = "done"
    /\ NoLocals

delete(endpoint, record_id, r) ==
    /\ CanCall
    /\ op' = "delete"
    /\ args' = [endpoint |-> endpoint, record_id |-> record_id]
    /\ requests' = <<delete_request(endpoint, record_id)>>
    /\ response' = r
    /\ outcome' = delete_outcome(r)
    /\ pc' = "done"
    /\ NoLocals

----------------------------------------------------------------------------
(* get_all: the count query up to the entry of the page loop (lines 242-264), *)
(* then one action per iteration of the loop (lines 264-285)                 *)

\* where get_all stands after the count query returned ct without raising:
\* the values of its locals and, when it is over, its outcome
after_count(a, ct) ==
    LET c == extract_count(ct)
        ps == resolve_pagesize(a.pagesize)
        tp == total_pages_of(c.i, ps.i)
        over(o, cv, psv, tpv) ==
            [pc |-> "done", outcome |-> o, count |-> cv, pagesize |-> psv,
             total_pages |-> tpv]
    IN  IF ct = PyNone THEN over(Return(PyList(<<>>)), 0, a.pagesize, 0)
        ELSE IF ~c.ok
        THEN IF c.exc \in CaughtByCount
             THEN over(Return(PyList(<<>>)), 0, a.pagesize, 0)
             ELSE over(Raise(Untyped(c.exc)), 0, a.pagesize, 0)
        ELSE IF ps.i = 0
        THEN over(Raise(Untyped("ZeroDivisionError")), c.i, ps, 0)
        ELSE IF tp < 1
        THEN over(Return(PyList(<<>>)), c.i, ps, tp)
        ELSE [pc |-> "get_all", outcome |-> Pending, count |-> c.i,
              pagesize |-> ps, total_pages |-> tp]

get_all_count(a, r) ==
    /\ CanCall
    /\ op' = "get_all" /\ args' = a
    /\ requests' = <<get_request(count_args(a))>>
    /\ response' = r
    /\ results' = <<get_outcome(r)>>
    /\ page' = 0
    /\ responses' = <<>>
    /\ locals' = NoMixinLocals
    /\ LET ct == get_outcome(r)
       IN  IF ct.kind = "raise"
           THEN /\ outcome' = get_all_raise(ct.err, <<>>)
                /\ pc' = "done"
                /\ count' = 0 /\ pagesize' = a.pagesize /\ total_pages' = 0
           ELSE LET next == after_count(a, ct.value)
                IN  /\ next.total_pages <= MaxPages
                    /\ pc' = next.pc
                    /\ outcome' = next.outcome
                    /\ count' = next.count
                    /\ pagesize' = next.pagesize
                    /\ total_pages' = next.total_pages

get_all_page(r) ==
    /\ pc = "get_all"
    /\ LET pg == page + 1
           result == get_outcome(r)
       IN  /\ page' = pg
           /\ requests' = Append(requests,
                                 get_request(page_args(args, pagesize, pg)))
           /\ response' = r
           /\ results' = Append(results, result)
           /\ IF result.kind = "raise"
              THEN /\ outcome' = get_all_raise(result.err, responses)
                   /\ pc' = "done"
                   /\ responses' = responses
              ELSE IF page_is_absent(result.value)
              THEN /\ outcome' = Return(PyList(responses))
                   /\ pc' = "done"
                   /\ responses' = responses
              ELSE LET acc == accumulate(responses, result.value)
                   IN  /\ responses' = acc
                       /\ IF pg >= total_pages
                          THEN /\ outcome' = Return(PyList(acc))
                               /\ pc' = "done"
                          ELSE /\ outcome' = Pending
                               /\ pc' = "get_all"
    /\ UNCHANGED <<op, args, count, pagesize, total_pages, locals>>

----------------------------------------------------------------------------
(* The resource methods: one action per request they issue *)

\* the locals of get_all outside get_all
NoGetAllLocals ==
    /\ count' = 0
    /\ pagesize' = PyNone
    /\ total_pages' = 0
    /\ page' = 0
    /\ responses' = <<>>

\* merge_ticket, ticket_mixin.py lines 215-218: the call of
\* update_ticket_status and its patch
merge_ticket_patch(child_ticket_id, parent_ticket_id, child_status_id, r) ==
    /\ CanCall
    /\ op' = "merge_ticket"
    /\ args' = [child_ticket_id |-> child_ticket_id,
                parent_ticket_id |-> parent_ticket_id,
                child_status_id |-> child_status_id]
    /\ requests' = <<patch_request("service/tickets", child_ticket_id,
                                   status_operations(child_status_id))>>
    /\ response' = r
    /\ NoGetAllLocals
    /\ LET child_ticket == update_ticket_status_outcome(patch_outcome(r))
       IN  /\ results' = <<patch_outcome(r)>>
           /\ IF child_ticket.kind = "raise"
              THEN /\ outcome' = child_ticket
                   /\ pc' = "done"
                   /\ locals' = NoMixinLocals
              ELSE /\ outcome' = Pending
                   /\ pc' = "merge_ticket"
                   /\ locals' = [child_ticket |-> child_ticket.value]

\* merge_ticket, lines 221-228: the attachChildren post and the result
merge_ticket_post(r) ==
    /\ pc = "merge_ticket"
    /\ requests' = Append(requests,
                          merge_request(args.child_ticket_id,
                                        args.parent_ticket_id))
    /\ response' = r
    /\ LET merge_response == post_outcome(r)
       IN  /\ results' = Append(results, merge_response)
           /\ outcome' = IF merge_response.kind = "raise" THEN merge_response
                         ELSE Return(merge_result(locals.child_ticket,
                                                  merge_response.value))
    /\ pc' = "done"
    /\ UNCHANGED <<op, args, count, pagesize, total_pages, page, responses,
                   locals>>

\* create_ticket, lines 38-67 (and 73 when config_ids is empty): the
\* creation post
create_ticket_post(a, r) ==
    /\ CanCall
    /\ op' = "create_ticket" /\ args' = a
    /\ requests' = <<post_request("service/tickets", create_ticket_payload(a))>>
    /\ response' = r
    /\ NoGetAllLocals
    /\ LET posted == post_outcome(r)
           ticket_data == IF posted.kind = "raise" THEN posted
                          ELSE normalize_ticket_data(posted.value)
       IN  /\ results' = <<posted>>
           /\ IF ticket_data.kind = "raise"
              THEN /\ outcome' = ticket_data
                   /\ pc' = "done"
                   /\ locals' = NoMixinLocals
              ELSE /\ locals' = [ticket_data |-> ticket_data.value,
                                 ticket_id |-> DictGet(ticket_data.value,
                                                       "id", PyNone)]
                   /\ IF a.config_ids = <<>>
                      THEN /\ outcome' = Ticket_from_dict(ticket_data.value)
                           /\ pc' = "done"
                      ELSE /\ outcome' = Pending
                           /\ pc' = "create_ticket"

\* create_ticket, lines 70-73: one iteration of the attach loop, and the
\* return after the last one
create_ticket_attach(r) ==
    /\ pc = "create_ticket"
    /\ LET k == Len(requests)
           attached == attach_configuration_outcome(post_outcome(r))
       IN  /\ requests' = Append(requests,
                                 attach_configuration_request(
                                     locals.ticket_id, args.config_ids[k]))
           /\ response' = r
           /\ results' = Append(results, post_outcome(r))
           /\ IF attached.kind = "raise"
              THEN outcome' = attached /\ pc' = "done"
              ELSE IF k = Len(args.config_ids)
              THEN /\ outcome' = Ticket_from_dict(locals.ticket_data)
                   /\ pc' = "done"
              ELSE outcome' = Pending /\ pc' = "create_ticket"
    /\ UNCHANGED <<op, args, count, pagesize, total_pages, page, responses,
                   locals>>

\* update_configuration, configuration_mixin.py lines 139-145
update_configuration(config_id, config, r) ==
    /\ CanCall
    /\ op' = "update_configuration"
    /\ args' = [config_id |-> config_id, config |-> config]
    /\ requests' = <<patch_request("company/configurations", config_id,
                                   configuration_operations(config))>>
    /\ response' = r
    /\ outcome' = update_configuration_outcome(patch_outcome(r))
    /\ pc' = "done"
    /\ NoLocals

----------------------------------------------------------------------------

\* one action per method; the guard on pc stands before the choice of the
\* arguments and of the response
Get == CanCall /\ \E a \in GetArgs, r \in Responses : get(a, r)
Post ==
    CanCall /\ \E e \in Endpoints, d \in Payloads, r \in Responses :
                  post(e, d, r)
Put ==
    CanCall /\ \E e \in Endpoints, i \in RecordIds, d \in Payloads,
                  r \in Responses : put(e, i, d, r)
Patch ==
    CanCall /\ \E e \in Endpoints, i \in RecordIds, o \in Operations,
                  r \in Responses : patch(e, i, o, r)
Delete ==
    CanCall /\ \E e \in Endpoints, i \in RecordIds, r \in Responses :
                  delete(e, i, r)
GetAllCount ==
    CanCall /\ \E a \in GetAllArgs, r \in Responses : get_all_count(a, r)
GetAllPage == pc = "get_all" /\ \E r \in PageResponses : get_all_page(r)
MergeTicketPatch ==
    CanCall /\ \E c \in RecordIds, p \in RecordIds, st \in {1},
                  r \in ResourceResponses :
                  c # p /\ merge_ticket_patch(c, p, st, r)
MergeTicketPost ==
    pc = "merge_ticket" /\ \E r \in ResourceResponses : merge_ticket_post(r)
CreateTicketPost ==
    CanCall /\ \E a \in CreateTicketArgs, r \in ResourceResponses :
                  create_ticket_post(a, r)
CreateTicketAttach ==
    pc = "create_ticket" /\ \E r \in ResourceResponses :
                               create_ticket_attach(r)
UpdateConfiguration ==
    CanCall /\ \E i \in RecordIds, c \in Configurations,
                  r \in ResourceResponses : update_configuration(i, c, r)

Next ==
    \/ Get
    \/ Post
    \/ Put
    \/ Patch
    \/ Delete
    \/ GetAllCount
    \/ GetAllPage
    \/ MergeTicketPatch
    \/ MergeTicketPost
    \/ CreateTicketPost
    \/ CreateTicketAttach
    \/ UpdateConfiguration

Spec == Init /\ [][Next]_vars

\* self.get is a blocking call of sequential code: once the transport has
\* answered a page query, get_all goes on to the next iteration or returns
FairSpec == Spec /\ WF_vars(GetAllPage)

----------------------------------------------------------------------------
(* Vocabulary of the properties *)

Min(a, b) == IF a < b THEN a ELSE b

\* the least n with n * p >= c
CeilDiv(c, p) == CHOOSE n \in 0..c : n * p >= c /\ (n = 0 \/ (n - 1) * p < c)

GetAllDone == op = "get_all" /\ pc = "done"

\* the count query answered with an object whose count field is an integer
HasReportedCount ==
    /\ op = "get_all"
    /\ Len(results) >= 1
    /\ results[1].kind = "return"
    /\ results[1].value.t = "dict"
    /\ "count" \in DOMAIN results[1].value.f
    /\ results[1].value.f.count.t = "int"
ReportedCount == results[1].value.f.count.i

\* the page size the caller's argument stands for: its value, 1000 when the
\* caller supplied none
EffectivePageSize ==
    IF args.pagesize = PyNone THEN DefaultPageSize ELSE args.pagesize.i

\* number of page queries issued so far
NumPageRequests == Len(requests) - 1

IsAbsence(o) == o.kind = "return" /\ o.value = PyNone
IsPayload(o) == o.kind = "return" /\ o.value # PyNone

\* no page query returned absence or raised
NoPageFailed == \A k \in 2..Len(results) : IsPayload(results[k])
SomePageAbsent == \E k \in 2..Len(results) : IsAbsence(results[k])

\* the records one retrieved page stands for
PageRecords(o) == IF o.value.t = "list" THEN o.value.items ELSE <<o.value>>

RECURSIVE Concat(_)
\* the records of the retrieved pages among os, in order
Concat(os) ==
    IF os = <<>> THEN <<>>
    ELSE IF IsPayload(Head(os)) THEN PageRecords(Head(os)) \o Concat(Tail(os))
    ELSE Concat(Tail(os))

\* the outcomes of page queries 1..k
PagesUpTo(k) == SubSeq(results, 2, k + 1)

\* the number of records of page k of a collection of c records cut in
\* pages of p
SliceLen(k, c, p) == Min(p, c - (k - 1) * p)

----------------------------------------------------------------------------
(* Properties *)

\* C1: a get_all invocation with page size P >= 1 and reported count C >= 0
\* in which no page query returns absence or raises ends after exactly
\* ceil(C/P) page requests, for pages 1, 2, ..., ceil(C/P).
C1_CeilPageRequests ==
    (GetAllDone /\ HasReportedCount /\ ReportedCount >= 0
        /\ EffectivePageSize >= 1 /\ NoPageFailed)
    => /\ NumPageRequests = CeilDiv(ReportedCount, EffectivePageSize)
       /\ \A k \in 1..NumPageRequests :
             requests[k + 1].params["page"] = PyInt(k)

C1_Witness ==
    /\ GetAllDone /\ HasReportedCount /\ ReportedCount = 2500
    /\ args.pagesize = PyNone /\ NoPageFailed
    /\ NumPageRequests = 3

\* C2 as stated (for a reported count C >= 0 and a page size P >= 1): the
\* list get_all returns holds between 0 and C records, and exactly C unless
\* a page returned absence.
C2_LengthWithinCount ==
    (GetAllDone /\ HasReportedCount /\ outcome.kind = "return"
        /\ ReportedCount >= 0 /\ EffectivePageSize >= 1)
    => /\ Len(outcome.value.items) \in 0..ReportedCount
       /\ ~SomePageAbsent => Len(outcome.value.items) = ReportedCount

\* every retrieved page holds at most / exactly the records of its slice
PagesWithinSlices ==
    \A k \in 1..NumPageRequests :
        IsPayload(results[k + 1])
        => Len(PageRecords(results[k + 1]))
              <= SliceLen(k, ReportedCount, EffectivePageSize)
PagesAreSlices ==
    \A k \in 1..NumPageRequests :
        /\ IsPayload(results[k + 1])
        /\ results[k + 1].value.t = "list"
        /\ Len(results[k + 1].value.items)
              = SliceLen(k, ReportedCount, EffectivePageSize)

\* C2 amended: for a reported count C >= 0 and a page size P >= 1, the list
\* get_all returns holds at most C records when no retrieved page holds more
\* records than its slice min(P, C - (k-1)P), and exactly C records when
\* every page is a list holding exactly its slice.
C2_LengthWithinCountOfSlices ==
    (GetAllDone /\ HasReportedCount /\ outcome.kind = "return"
        /\ ReportedCount >= 0 /\ EffectivePageSize >= 1)
    => /\ PagesWithinSlices => Len(outcome.value.items) \in 0..ReportedCount
       /\ PagesAreSlices => Len(outcome.value.items) = ReportedCount

C2_Witness ==
    /\ GetAllDone /\ HasReportedCount /\ outcome.kind = "return"
    /\ ReportedCount = 3 /\ args.pagesize = PyInt(2)
    /\ PagesAreSlices
    /\ Len(outcome.value.items) = 3

\* C3: the accumulator of get_all, and the list it returns, is exactly the
\* concatenation in page order of the retrieved pages: every element of a
\* list page in its order, a non-list page as one element, nothing sorted,
\* dropped or de-duplicated.
C3_ExactConcatenation ==
    op = "get_all"
    => /\ responses = Concat(PagesUpTo(NumPageRequests))
       /\ (pc = "done" /\ outcome.kind = "return")
             => outcome.value = PyList(Concat(PagesUpTo(NumPageRequests)))

C3_Witness ==
    /\ GetAllDone /\ NumPageRequests = 2
    /\ results[2] = Return(PyList(<<Rec(1), Rec(2)>>))
    /\ results[3] = Return(Rec(1))
    /\ outcome = Return(PyList(<<Rec(1), Rec(2), Rec(1)>>))

\* C4: a 404 on page k ends get_all at once: it is the last request, nothing
\* is raised and the result is exactly the records of pages 1..k-1; an
\* absence is never followed by another page query.
C4_AbsenceStopsPagination ==
    op = "get_all"
    => /\ (NumPageRequests >= 1 /\ response.status_code = 404)
             => /\ pc = "done"
                /\ Len(results) = Len(requests)
                /\ outcome = Return(PyList(Concat(PagesUpTo(NumPageRequests - 1))))
       /\ \A k \in 2..Len(results) :
             IsAbsence(results[k]) => k = Len(requests) /\ pc = "done"

C4_Witness ==
    /\ GetAllDone /\ total_pages = 3 /\ NumPageRequests = 2
    /\ response.status_code = 404
    /\ outcome = Return(PyList(<<Rec(1), Rec(2)>>))

\* C5: a 404 on the count query makes get_all return the empty list, without
\* raising and without any page request.
C5_CountAbsenceIsEmpty ==
    (op = "get_all" /\ NumPageRequests = 0 /\ response.status_code = 404)
    => /\ pc = "done"
       /\ outcome = Return(PyList(<<>>))
       /\ requests = <<get_request(count_args(args))>>

C5_Witness ==
    /\ GetAllDone /\ NumPageRequests = 0 /\ response.status_code = 404
    /\ response.body.json = PyDict([message |-> PyStr("boom")])
    /\ outcome = Return(PyList(<<>>))

\* C6 as stated: when the count query reports 0, get_all returns the empty
\* list and issues no request beyond the count query, for every page size.
C6_ZeroCountIsEmpty ==
    (GetAllDone /\ HasReportedCount /\ ReportedCount = 0)
    => /\ outcome = Return(PyList(<<>>))
       /\ NumPageRequests = 0

\* C7 as stated: get_all paginates with the caller's page size when it is a
\* positive integer and with 1000 when the caller supplies zero or nothing,
\* and raises nothing in these fallback cases.
C7_PageSizeFallback ==
    (HasReportedCount /\ ReportedCount >= 0)
    => /\ pagesize = IF args.pagesize \in {PyNone, PyInt(0)}
                     THEN PyInt(DefaultPageSize) ELSE args.pagesize
       /\ args.pagesize \in {PyNone, PyInt(0)}
             => ~(NumPageRequests = 0 /\ outcome.kind = "raise")

\* the values int() turns into an integer
Coercible(v) ==
    \/ v.t \in {"int", "bool"}
    \/ v.t = "str" /\ \E i \in Numerals : ToString(i) = v.s
    \/ v.t = "float" /\ v.special = "none"

\* C8 as stated (for the page sizes other than zero): when the count
\* response is not an object, has no count field, or has a count that cannot
\* be coerced to an integer, get_all returns the empty list, raises nothing
\* and issues no page request.
C8_BadCountIsEmpty ==
    (op = "get_all" /\ Len(results) >= 1 /\ results[1].kind = "return"
        /\ args.pagesize # PyInt(0)
        /\ \/ results[1].value.t # "dict"
           \/ "count" \notin DOMAIN results[1].value.f
           \/ ~Coercible(results[1].value.f.count))
    => /\ pc = "done"
       /\ outcome = Return(PyList(<<>>))
       /\ NumPageRequests = 0

\* C9: a typed error raised by the count query or by a page query is the
\* last thing that happens in get_all: get_all raises that same error, no
\* request follows and the records accumulated so far are not returned.
C9_TypedErrorPropagates ==
    op = "get_all"
    => \A k \in 1..Len(results) :
          (results[k].kind = "raise" /\ IsTyped(results[k].err))
          => /\ k = Len(requests)
             /\ pc = "done"
             /\ outcome = Raise(handle_response_error(response))
             /\ outcome = results[k]

C9_Witness ==
    /\ GetAllDone /\ NumPageRequests = 2 /\ responses # <<>>
    /\ response.status_code = 500
    /\ outcome.kind = "raise"
    /\ outcome.err.cls = "ConnectWiseServerError"

\* C10: a 404 is never raised by get, put, patch or delete: the first three
\* return None, delete returns False, whatever the body of the response.
C10_NotFoundIsAbsence ==
    (pc = "done" /\ response.status_code = 404)
    => /\ op \in {"get", "put", "patch"} => outcome = Return(PyNone)
       /\ op = "delete" => outcome = Return(PyBool(FALSE))

C10_Witness ==
    /\ pc = "done" /\ op = "patch" /\ response.status_code = 404
    /\ response.body.json = PyDict([message |-> PyStr("boom")])
    /\ outcome = Return(PyNone)

----------------------------------------------------------------------------
(* Properties of the request executor *)

BaseDone == pc = "done" /\ op \in {"get", "post", "put", "patch", "delete"}
\* the success range of HTTP
Is2xx(status) == status >= 200 /\ status <= 299
\* the outcome is an error of the library's taxonomy
RaisesTyped == outcome.kind = "raise" /\ IsTyped(outcome.err)

\* C11 as stated: get, put and patch yield exactly one of three outcomes by
\* the status alone: 404 gives absence, any other status outside 200..299 a
\* typed API error, a 2xx status the parsed JSON payload (never absence,
\* never an error).
C11_ThreeOutcomesByStatus ==
    (pc = "done" /\ op \in {"get", "put", "patch"})
    => /\ response.status_code = 404 => outcome = Return(PyNone)
       /\ (response.status_code # 404 /\ ~Is2xx(response.status_code))
             => RaisesTyped
       /\ Is2xx(response.status_code)
             => /\ outcome.kind = "return"
                /\ outcome.value # PyNone
                /\ outcome.value = response.body.json

\* the error kind the status selects
KindOfStatus(status) ==
    CASE status = 401 -> "ConnectWiseAuthenticationError"
      [] status = 400 -> "ConnectWiseBadRequestError"
      [] status = 429 -> "ConnectWiseRateLimitError"
      [] status >= 500 -> "ConnectWiseServerError"
      [] OTHER -> "ConnectWiseAPIError"

\* C12 as stated: for an error status other than 404 the kind of the raised
\* error follows from the status alone: 401 Authentication, 400 Bad-request,
\* 429 Rate-limit, 500 and above Server, anything else the generic API error.
C12_KindByStatus ==
    (BaseDone /\ ~ok(response) /\ response.status_code # 404)
    => /\ outcome.kind = "raise"
       /\ outcome.err.cls = KindOfStatus(response.status_code)

\* the header spells a decimal numeral
IsNumericHeader(h) == h.t = "str" /\ \E i \in Numerals : ToString(i) = h.s
NumeralOf(h) == CHOOSE i \in Numerals : ToString(i) = h.s

\* C13 as stated: a 429 always raises the Rate-limit error, whose retry_after
\* is the number of the Retry-After header when it is numeric and None when
\* the header is missing or not numeric.
C13_RateLimitRetryAfter ==
    (BaseDone /\ response.status_code = 429)
    => /\ outcome.kind = "raise"
       /\ outcome.err.cls = "ConnectWiseRateLimitError"
       /\ outcome.err.retry_after =
             IF IsNumericHeader(response.retry_after)
             THEN PyInt(NumeralOf(response.retry_after))
             ELSE PyNone

\* the response went through the error classifier
Classified ==
    /\ BaseDone /\ ~ok(response)
    /\ response.status_code # 404 \/ op = "post"

\* C14 as stated (for the typed errors): when the body of an error response
\* parses as JSON the message of the raised error is the value of its message
\* field, and the raw response text when there is no message field.
C14_MessageOfJsonBody ==
    (Classified /\ response.body.json # NotJson /\ RaisesTyped)
    => outcome.err.message =
          IF response.body.json.t = "dict"
             /\ "message" \in DOMAIN response.body.json.f
          THEN response.body.json.f["message"]
          ELSE PyStr(response.body.text)

\* C15 as stated: when the body of an error response does not parse as JSON
\* the message of the raised error is the raw text if there is any, and
\* otherwise a synthesized message holding the status code.
C15_MessageOfNonJsonBody ==
    (Classified /\ response.body.json = NotJson)
    => /\ outcome.kind = "raise"
       /\ outcome.err.message =
             IF response.body.text # "" THEN PyStr(response.body.text)
             ELSE PyStr("HTTP " \o ToString(response.status_code) \o " error")

\* C16 as stated: every error the classifier raises carries a message, the
\* status of the response as status_code, and as response_data the parsed
\* body, None when the body did not parse.
C16_ErrorCarriesDetails ==
    Classified
    => /\ outcome.kind = "raise"
       /\ outcome.err.message # PyNone
       /\ outcome.err.status_code = PyInt(response.status_code)
       /\ outcome.err.response_data =
             IF response.body.json = NotJson THEN PyNone
             ELSE response.body.json

\* C17 as stated: post raises a typed error for every response outside the
\* success range, 404 included, never None; it returns a payload only for a
\* success response.
C17_PostHasNoAbsence ==
    (pc = "done" /\ op = "post")
    => /\ ~Is2xx(response.status_code) => RaisesTyped
       /\ outcome.kind = "return" => Is2xx(response.status_code)

\* C18 as stated: delete returns True for every success status, False only
\* for 404, and raises a typed error for every other status.
C18_DeleteOutcome ==
    (pc = "done" /\ op = "delete")
    => /\ Is2xx(response.status_code) => outcome = Return(PyBool(TRUE))
       /\ outcome = Return(PyBool(FALSE)) <=> response.status_code = 404
       /\ (~Is2xx(response.status_code) /\ response.status_code # 404)
             => RaisesTyped

\* the HTTP method each base method uses
MethodOf(o) ==
    CASE o = "get" -> "GET" [] o = "post" -> "POST" [] o = "put" -> "PUT"
      [] o = "patch" -> "PATCH" [] o = "delete" -> "DELETE"

\* C19: an invocation of get, post, put, patch or delete hands exactly one
\* request to the transport, whatever the status of the response: nothing is
\* re-issued after an error response.
C19_OneCallNoRetry ==
    BaseDone
    => /\ Len(requests) = 1
       /\ requests[1].method = MethodOf(op)

C19_Witness ==
    /\ BaseDone /\ op = "get" /\ response.status_code = 429
    /\ outcome.kind = "raise"
    /\ Len(requests) = 1

OptionalParams ==
    {"conditions", "childconditions", "fields", "pagesize", "page", "orderby"}
\* the caller gave the parameter a value other than its default
Supplied(k) ==
    IF k \in {"pagesize", "page"} THEN args[k] # PyNone ELSE args[k] # PyStr("")

\* C20 as stated: the query of get holds a key for an optional parameter
\* exactly when the caller supplied that parameter.
C20_KeyIffSupplied ==
    (pc = "done" /\ op = "get")
    => \A k \in OptionalParams :
          k \in DOMAIN requests[1].params <=> Supplied(k)

\* C20 amended: the query of get holds a key for an optional parameter
\* exactly when the caller supplied it with a non-empty string or a non-zero
\* integer, and then with the caller's value; an omitted, empty or zero
\* argument never appears, and a get without filters sends no parameter.
C20_KeyIffSuppliedNonZero ==
    (pc = "done" /\ op = "get")
    => /\ DOMAIN requests[1].params \subseteq OptionalParams
       /\ \A k \in OptionalParams :
             /\ k \in DOMAIN requests[1].params
                   <=> (Supplied(k) /\ args[k] # PyInt(0))
             /\ k \in DOMAIN requests[1].params
                   => requests[1].params[k] = args[k]

C20_Witness ==
    /\ pc = "done" /\ op = "get"
    /\ \A k \in OptionalParams : ~Supplied(k)
    /\ DOMAIN requests[1].params = {}

----------------------------------------------------------------------------
(* Properties of the requests get_all issues *)

\* C21: the count query of get_all is a GET of endpoint + "/count" whose
\* query holds the caller's conditions and childconditions (when supplied)
\* and nothing else: fields, orderby, pagesize and page are never on it,
\* whatever the caller passed to get_all.
C21_CountQueryFilters ==
    (op = "get_all" /\ Len(requests) >= 1) =>
        LET q == requests[1]
        IN  /\ q.method = "GET"
            /\ q.endpoint = args.endpoint \o "/count"
            /\ DOMAIN q.params \subseteq {"conditions", "childconditions"}
            /\ \A k \in {"conditions", "childconditions"} :
                   /\ Truthy(args[k]) => k \in DOMAIN q.params
                   /\ k \in DOMAIN q.params => q.params[k] = args[k]

\* a get_all called with every filter and a page size, whose first page
\* query carries the fields, the ordering and the page size
C21_Witness ==
    /\ op = "get_all"
    /\ Truthy(args.conditions) /\ Truthy(args.childconditions)
    /\ Truthy(args.fields) /\ Truthy(args.orderby) /\ Truthy(args.pagesize)
    /\ Len(requests) >= 2
    /\ {"fields", "orderby", "pagesize", "page"}
           \subseteq DOMAIN requests[2].params
    /\ DOMAIN requests[1].params = {"conditions", "childconditions"}

\* the filters of get_all that a page query forwards
PageFilters == {"conditions", "childconditions", "fields", "orderby"}

\* the k-th request of a get_all is the query for page k - 1, with the
\* resolved page size and exactly the filters the caller supplied
IsPageQuery(q, k) ==
    /\ q.method = "GET"
    /\ q.endpoint = args.endpoint
    /\ DOMAIN q.params =
          {"page", "pagesize"} \cup {f \in PageFilters : Truthy(args[f])}
    /\ q.params.page = PyInt(k - 1)
    /\ q.params.pagesize = PyInt(EffectivePageSize)
    /\ \A f \in PageFilters : Truthy(args[f]) => q.params[f] = args[f]

\* the requests of a get_all so far: the count query, then pages 1, 2, ...;
\* every request but the last was answered with a payload that get_all
\* processed, and the last one has its answer too
GetAllSequence ==
    op = "get_all" =>
        /\ Len(requests) >= 1
        /\ requests[1].endpoint = args.endpoint \o "/count"
        /\ \A k \in 2..Len(requests) : IsPageQuery(requests[k], k)
        /\ Len(results) = Len(requests)
        /\ \A k \in 1..(Len(requests) - 1) : IsPayload(results[k])
        /\ page = Len(requests) - 1
        /\ responses = Concat(SubSeq(results, 2,
                                     IF pc = "done" /\ outcome.kind = "raise"
                                     THEN Len(results) - 1 ELSE Len(results)))

\* a step inside get_all issues exactly one request, after the ones
\* already issued
OneRequestPerStep ==
    (op' = "get_all") =>
        /\ Len(requests') = (IF op = "get_all" THEN Len(requests) ELSE 0) + 1
        /\ op = "get_all" => SubSeq(requests', 1, Len(requests)) = requests

\* C22: within one get_all invocation the count request comes first and
\* exactly once; the page requests follow one at a time for pages 1, 2, ...
\* in ascending order, none skipped or repeated; request k+1 is issued only
\* after the response to request k was received and processed; every page
\* request carries the same resolved page size and all the filters the
\* caller supplied.
C22_CountThenPagesInOrder == []GetAllSequence /\ [][OneRequestPerStep]_vars

\* a get_all with filters and no page size argument that went through the
\* count query and three pages
C22_Witness ==
    /\ GetAllDone
    /\ args.pagesize = PyNone
    /\ Truthy(args.fields) /\ Truthy(args.conditions)
    /\ Len(requests) = 4
    /\ outcome.kind = "return"

\* a get_all whose count query reported an integer count, called with a
\* page size >= 1 (or none, which stands for 1000)
IntegerCountCase ==
    op = "get_all" /\ HasReportedCount /\ EffectivePageSize >= 1

\* ceil(count / pagesize) page queries at most; none for a count <= 0
MaxPageRequests ==
    IF ReportedCount > 0 THEN CeilDiv(ReportedCount, EffectivePageSize) ELSE 0

PageRequestsBounded ==
    IntegerCountCase =>
        /\ Len(requests) >= 1
        /\ NumPageRequests <= MaxPageRequests
        /\ ReportedCount < 0 =>
               /\ pc = "done"
               /\ NumPageRequests = 0
               /\ outcome = Return(PyList(<<>>))

\* C23: for every integer count and every page size >= 1, whatever the
\* page responses are, get_all comes to an end after one count request and
\* at most ceil(count/pagesize) page requests; for a negative count it
\* issues no page request and returns an empty list.
C23_GetAllTerminates ==
    /\ []PageRequestsBounded
    /\ IntegerCountCase ~> (IntegerCountCase /\ pc = "done")

\* a get_all over 3 records in pages of 2 that ended after both pages
C23_Witness ==
    /\ GetAllDone /\ HasReportedCount
    /\ ReportedCount = 2 * MaxPageSize - 1
    /\ args.pagesize = PyInt(MaxPageSize)
    /\ NumPageRequests = 2
    /\ outcome.kind = "return"

----------------------------------------------------------------------------
(* Properties of the resource methods *)

\* the child-status PATCH of the current merge_ticket
ChildStatusPatch ==
    patch_request("service/tickets", args.child_ticket_id,
                  status_operations(args.child_status_id))
\* its attachChildren POST: to the parent, with the child id
AttachChildrenPost ==
    [method |-> "POST",
     endpoint |-> "service/tickets/" \o ToString(args.parent_ticket_id)
                      \o "/attachChildren",
     params |-> NoParams,
     json |-> PyDict([childTicketIds |->
                          PyList(<<PyInt(args.child_ticket_id)>>)])]

\* the requests of a merge_ticket so far: the PATCH, then at most the POST;
\* none after a PATCH that raised a typed error; after a PATCH that yielded
\* absence the method either stands before the POST with child_ticket None
\* or has issued it, and a returned result has child_ticket None
MergeSequence ==
    op = "merge_ticket" =>
        /\ Len(requests) \in {1, 2}
        /\ requests[1] = ChildStatusPatch
        /\ Len(requests) = 2 => requests[2] = AttachChildrenPost
        /\ (results[1].kind = "raise" /\ IsTyped(results[1].err)) =>
               /\ Len(requests) = 1
               /\ pc = "done"
               /\ outcome = results[1]
        /\ IsAbsence(results[1]) =>
               \/ /\ pc = "merge_ticket"
                  /\ Len(requests) = 1
                  /\ locals.child_ticket = PyNone
               \/ /\ pc = "done"
                  /\ Len(requests) = 2
                  /\ outcome.kind = "return" =>
                         outcome.value.f.child_ticket = PyNone

\* the step merge_ticket takes after its PATCH is the POST, and nothing else
PostFollowsPatch ==
    pc = "merge_ticket" =>
        /\ requests' = Append(requests, AttachChildrenPost)
        /\ pc' = "done"

\* C24: merge_ticket issues the child-status PATCH strictly before the
\* attachChildren POST; when the PATCH raises a typed error the POST is never
\* issued; when the PATCH yields absence (child ticket not found) the POST to
\* the parent is still issued, with the child id, and the child_ticket of the
\* result is None.
C24_PatchBeforePost == []MergeSequence /\ [][PostFollowsPatch]_vars

\* a merge_ticket whose PATCH yielded absence and whose POST succeeded
C24_Witness ==
    /\ op = "merge_ticket" /\ pc = "done"
    /\ IsAbsence(results[1])
    /\ Len(requests) = 2
    /\ outcome.kind = "return"
    /\ outcome.value.f.child_ticket = PyNone
    /\ outcome.value.f.merge_response # PyNone

\* the k-th request of a create_ticket, k >= 2, attaches the (k-1)-th
\* element of config_ids
IsAttachPost(q, k) ==
    /\ q.method = "POST"
    /\ q.json = PyDict([id |-> args.config_ids[k - 1]])
    /\ q.endpoint = "service/tickets/" \o format(locals.ticket_id)
                        \o "/configurations"

\* what the k-th attach_configuration of a create_ticket returned or raised
AttachOutcome(k) == attach_configuration_outcome(results[k + 1])

\* C25: create_ticket issues the ticket-creation POST first and then one
\* configuration-attach POST per element of config_ids, in list order; if
\* the creation POST raises, no attach request is issued; if the k-th attach
\* raises, the error propagates, attaches k+1 onward are never issued, and no
\* request undoes the created ticket or the first k-1 attachments.
C25_CreateThenAttachInOrder ==
    op = "create_ticket" =>
        /\ Len(requests) >= 1
        /\ requests[1] =
               post_request("service/tickets", create_ticket_payload(args))
        /\ Len(requests) <= 1 + Len(args.config_ids)
        /\ \A k \in 2..Len(requests) : IsAttachPost(requests[k], k)
        /\ results[1].kind = "raise" =>
               Len(requests) = 1 /\ pc = "done" /\ outcome = results[1]
        /\ \A k \in 1..(Len(requests) - 1) :
               AttachOutcome(k).kind = "raise" =>
                   /\ Len(requests) = k + 1
                   /\ pc = "done"
                   /\ outcome = AttachOutcome(k)
        /\ (/\ pc = "done"
            /\ results[1].kind = "return"
            /\ \A k \in 1..(Len(requests) - 1) :
                   AttachOutcome(k).kind = "return") =>
               Len(requests) = 1 + Len(args.config_ids)

\* C26: for every response to its PATCH request, a 404 included (patch then
\* returns None), update_configuration either returns a Configuration or
\* raises a typed ConnectWiseAPIError; it never ends in an untyped failure.
C26_UpdateConfigurationTyped ==
    (op = "update_configuration" /\ pc = "done") =>
        \/ outcome.kind = "return" /\ outcome.value.t = "Configuration"
        \/ outcome.kind = "raise" /\ IsTyped(outcome.err)

====
